---------------------------- MODULE Spec2Model ----------------------------
(***************************************************************************)
(* A model of the zkSNARK teaching pipeline: prime-field arithmetic        *)
(* (field.h), the Weierstrass curve group (elliptic_curve.h), the rank-1   *)
(* constraint system (r1cs.h), polynomials, Lagrange interpolation and     *)
(* the QAP transform (qap.h) and the Setup / Prove / Verify protocol       *)
(* (zksnark.h).                                                            *)
(*                                                                         *)
(* TLC evaluates integers in 32 bits, so every operator below forms its    *)
(* result without an intermediate value above 2^31 - 1; the values are     *)
(* those the C++ code obtains in its 64-bit and 128-bit intermediates.     *)
(***************************************************************************)
EXTENDS Integers, Sequences, FiniteSets, TLC

(***************************************************************************)
(* field.h : FieldElement                                                  *)
(***************************************************************************)

\* static const uint64_t SMALL_PRIME = 2147483647ULL (2^31 - 1)
SMALL_PRIME == 2147483647

\* FieldElement(uint64_t val) : value(val % SMALL_PRIME)
FieldElement(val) == val % SMALL_PRIME

\* The C++ operators receive their operands as values.  An operator below
\* names the value of an operand e by x in Value({ f(x) : x \in {e} }), which
\* is f(e) with e evaluated once.
Value(S) == CHOOSE v \in S : TRUE

\* operator+ reducing only sums above SMALL_PRIME: a sum equal to
\* SMALL_PRIME is stored as it is
FAddAbove(a, b) ==
    Value({ IF x > SMALL_PRIME - y THEN x - (SMALL_PRIME - y) ELSE x + y :
            x \in {a}, y \in {b} })

\* operator+ : (value + other.value) % SMALL_PRIME.  Both operands are below
\* SMALL_PRIME, so the sum is reduced by at most one subtraction.
FAdd(a, b) ==
    Value({ IF x >= SMALL_PRIME - y THEN x - (SMALL_PRIME - y) ELSE x + y :
            x \in {a}, y \in {b} })

\* operator- : (value + SMALL_PRIME - other.value) % SMALL_PRIME
FSub(a, b) ==
    Value({ IF x >= y THEN x - y ELSE x + (SMALL_PRIME - y) :
            x \in {a}, y \in {b} })

\* The 128-bit product value * other.value of two values below 2^31, as
\* the pair <<hi, lo>> with product = hi * 2^31 + lo.  The operands are
\* split into 11-bit limbs, the column sums are carried in base 2^11.
Limb == 2048

\* the three 11-bit limbs of a value below 2^31, lowest first
Limbs(v) == Value({ << x % Limb, (x \div Limb) % Limb, x \div (Limb * Limb) >> :
                    x \in {v} })

\* the next column sum: the products of the column plus the carry of the
\* column below it
Carry(columns, products) ==
    Value({ Append(c, products + (c[Len(c)] \div Limb)) : c \in {columns} })

\* the column sums t0 .. t4 of the schoolbook product of two limb triples
Columns(a, b) ==
    Carry(Carry(Carry(Carry(<< a[1] * b[1] >>,
                            a[1] * b[2] + a[2] * b[1]),
                      a[1] * b[3] + a[2] * b[2] + a[3] * b[1]),
                a[2] * b[3] + a[3] * b[2]),
          a[3] * b[3])

WideMul(a, b) ==
    Value({ << ((t[3] % Limb) \div 512) + (t[4] % Limb) * 4
                 + (t[5] % Limb) * 8192 + (t[5] \div Limb) * 16777216,
               (t[1] % Limb) + (t[2] % Limb) * Limb
                 + ((t[3] % Limb) % 512) * (Limb * Limb) >> :
            t \in { Columns(x, y) : x \in {Limbs(a)}, y \in {Limbs(b)} } })

\* temp % SMALL_PRIME for a wide value <<hi, lo>>: 2^31 = SMALL_PRIME + 1,
\* so hi * 2^31 + lo is congruent to hi + lo.
WideMod(w) ==
    Value({ FAdd(v[1] % SMALL_PRIME, v[2] % SMALL_PRIME) : v \in {w} })

\* operator* with a 32-bit temp: the product modulo 2^32, then % SMALL_PRIME
FMulNarrow(a, b) ==
    Value({ FAdd(w[1] % 2, w[2] % SMALL_PRIME) : w \in { WideMul(a, b) } })

\* operator* : __uint128_t temp = value * other.value; temp % SMALL_PRIME
FMul(a, b) == WideMod(WideMul(a, b))

\* The failure raised by inverse(): std::runtime_error("Cannot invert zero")
DivisionError == [error |-> "Cannot invert zero"]

IsError(v) == "error" \in DOMAIN v

RECURSIVE InverseLoop(_)
\* the while (newr != 0) loop of inverse() on the locals <<t, newt, r, newr>>;
\* returns the locals at its exit
InverseLoop(st) ==
    IF st[4] = 0 THEN st
    ELSE LET quotient == st[3] \div st[4]
         IN  InverseLoop(<< st[2], st[1] - quotient * st[2],
                            st[4], st[3] - quotient * st[4] >>)

\* the statements after the loop without if (t < 0) t = t + p: a negative
\* t converts to the uint64_t 2^64 + t, and 2^64 is congruent to 4
InverseResultUnsigned(st) ==
    Value({ IF e[3] > 1 THEN [ok |-> FALSE, v |-> 0]
            ELSE [ok |-> TRUE,
                  v  |-> IF e[1] < 0 THEN FAdd(e[1] % SMALL_PRIME, 4)
                         ELSE FieldElement(e[1])] :
            e \in {st} })

\* the statements of inverse() after the loop, on the locals at its exit:
\* if (r > 1) throw; if (t < 0) t = t + p; return FieldElement(t)
InverseResult(st) ==
    Value({ IF e[3] > 1 THEN [ok |-> FALSE, v |-> 0]
            ELSE [ok |-> TRUE,
                  v  |-> FieldElement(IF e[1] < 0 THEN e[1] + SMALL_PRIME
                                      ELSE e[1])] :
            e \in {st} })

\* inverse() : extended Euclid; a record [ok, v] stands for "returns v" or
\* "throws"
FInverse(a) ==
    Value({ IF x = 0 THEN [ok |-> FALSE, v |-> 0]
            ELSE InverseResult(InverseLoop(<< 0, 1, SMALL_PRIME, x >>)) :
            x \in {a} })

\* operator/ : (*this) * other.inverse()
FDiv(a, b) ==
    Value({ IF i.ok THEN [ok |-> TRUE, v |-> FMul(a, i.v)] ELSE i :
            i \in { FInverse(b) } })

RECURSIVE PowerLoop(_)
\* the while (exp > 0) loop of power() on the locals <<result, base, exp>>
PowerLoop(st) ==
    IF st[3] = 0 THEN st[1]
    ELSE PowerLoop(<< IF st[3] % 2 = 1 THEN FMul(st[1], st[2]) ELSE st[1],
                      FMul(st[2], st[2]), st[3] \div 2 >>)

\* power(uint64_t exp) : square and multiply
FPower(a, exp) ==
    IF exp = 0 THEN FieldElement(1) ELSE PowerLoop(<< FieldElement(1), a, exp >>)

(***************************************************************************)
(* elliptic_curve.h : ECPoint                                              *)
(***************************************************************************)

\* ECPoint() : x(0), y(0), is_infinity(true)
Infinity == [x |-> 0, y |-> 0, is_infinity |-> TRUE]

\* ECPoint(x_val, y_val) : is_infinity(false).  The constructor only prints
\* a warning when the point is off the curve; see OnCurve.
ECPoint(x_val, y_val) == [x |-> x_val, y |-> y_val, is_infinity |-> FALSE]

\* the constructor's test left == right, for curve = [a, b]
OnCurve(p, curve) ==
    FMul(p.y, p.y) =
        FAdd(FAdd(FMul(FMul(p.x, p.x), p.x), FMul(curve.a, p.x)), curve.b)

\* the slope lambda of operator+ for two finite points that are not
\* mirror images: the doubling quotient when the operands are equal, the
\* chord quotient otherwise; [ok |-> FALSE] when operator/ throws
Slope(p, other, a) ==
    IF p.x = other.x /\ p.y = other.y
    THEN FDiv(FAdd(FMul(FMul(p.x, p.x), FieldElement(3)), a),
              FMul(p.y, FieldElement(2)))
    ELSE FDiv(FSub(other.y, p.y), FSub(other.x, p.x))

\* x_new = lambda * lambda - x - other.x; y_new = lambda * (x - x_new) - y
Chord(p, other, lambda) ==
    Value({ ECPoint(x_new, FSub(FMul(lambda, FSub(p.x, x_new)), p.y)) :
            x_new \in { FSub(FSub(FMul(lambda, lambda), p.x), other.x) } })

\* operator+ without the test of other.is_infinity: a finite point plus the
\* point at infinity goes on to the slope
ECAddOneSided(p, other, a) ==
    Value({ IF u.is_infinity THEN v
            ELSE IF u.x = v.x /\ u.y # v.y THEN Infinity
            ELSE Value({ IF lambda.ok THEN Chord(u, v, lambda.v)
                         ELSE DivisionError :
                         lambda \in { Slope(u, v, a) } }) :
            u \in {p}, v \in {other} })

\* operator+ under the static curve parameter a; DivisionError when the
\* slope's operator/ throws
ECAdd(p, other, a) ==
    Value({ IF u.is_infinity THEN v
            ELSE IF v.is_infinity THEN u
            ELSE IF u.x = v.x /\ u.y # v.y THEN Infinity
            ELSE Value({ IF lambda.ok THEN Chord(u, v, lambda.v)
                         ELSE DivisionError :
                         lambda \in { Slope(u, v, a) } }) :
            u \in {p}, v \in {other} })

\* the number of operator/ calls operator+ makes: none when it returns from
\* one of its three guards, one for the slope otherwise
SlopeDivisions(p, other) ==
    IF p.is_infinity THEN 0
    ELSE IF other.is_infinity THEN 0
    ELSE IF p.x = other.x /\ p.y # other.y THEN 0
    ELSE 1

\* operator==
ECEquals(p, other) ==
    IF p.is_infinity /\ other.is_infinity THEN TRUE
    ELSE IF p.is_infinity \/ other.is_infinity THEN FALSE
    ELSE p.x = other.x /\ p.y = other.y

\* A uint64_t scalar below 2^62 is the pair <<hi, lo>> = hi * 2^31 + lo.
U64(k) == << 0, k >>

\* scalar >>= 1
ShiftRight(w) == << w[1] \div 2, (w[2] \div 2) + (w[1] % 2) * 1073741824 >>

\* One pass of the body of the while (scalar > 0) loop of operator* on the
\* locals [result, base, scalar]; thrown is set when either addition throws.
ScalarStep(st, a) ==
    Value({ IF IsError(r1) \/ IsError(b1) THEN [st EXCEPT !.thrown = TRUE]
            ELSE [result |-> r1, base |-> b1,
                  scalar |-> ShiftRight(st.scalar), thrown |-> FALSE] :
            r1 \in { IF st.scalar[2] % 2 = 1
                     THEN ECAdd(st.result, st.base, a) ELSE st.result },
            b1 \in { ECAdd(st.base, st.base, a) } })

ScalarDone(st) == st.thrown \/ st.scalar = << 0, 0 >>

RECURSIVE ScalarSteps(_, _, _)
\* at most n passes of the loop
ScalarSteps(st, a, n) ==
    IF n = 0 \/ ScalarDone(st) THEN st
    ELSE ScalarSteps(Value({ ScalarStep(s, a) : s \in {st} }), a, n - 1)

RECURSIVE ScalarLoop(_, _)
\* the whole loop, run in blocks of 16 passes (the evaluation depth stays
\* bounded for 62-bit scalars)
ScalarLoop(st, a) ==
    Value({ IF ScalarDone(s) THEN s ELSE ScalarLoop(ScalarSteps(s, a, 16), a) :
            s \in {st} })

\* operator*(uint64_t scalar) : double and add, for a scalar <<hi, lo>>
ECMulWide(p, scalar, a) ==
    Value({ IF k = << 0, 0 >> \/ u.is_infinity THEN Infinity
            ELSE Value({ IF st.thrown THEN DivisionError ELSE st.result :
                         st \in { ScalarLoop([result |-> Infinity, base |-> u,
                                              scalar |-> k, thrown |-> FALSE],
                                             a) } }) :
            u \in {p}, k \in {scalar} })

\* operator*(uint64_t scalar) for a scalar below 2^31
ECMul(p, k, a) == ECMulWide(p, U64(k), a)

(***************************************************************************)
(* r1cs.h : R1CS                                                           *)
(***************************************************************************)

\* a row or matrix filled with FieldElement(0)
ZeroRow(n) == [j \in 1..n |-> FieldElement(0)]

\* R1CS(int vars, int constraints) : A, B, C resized to constraints rows of
\* vars zeros
R1CS(vars, constraints) ==
    [A |-> [i \in 1..constraints |-> ZeroRow(vars)],
     B |-> [i \in 1..constraints |-> ZeroRow(vars)],
     C |-> [i \in 1..constraints |-> ZeroRow(vars)],
     num_variables |-> vars,
     num_constraints |-> constraints]

\* the failure raised by setConstraint
RangeError == [error |-> "Constraint index out of bounds"]

\* setConstraint assigning b to row 0 of B whatever idx is
setConstraintFirstRow(r, idx, a, b, c) ==
    IF idx >= r.num_constraints THEN RangeError
    ELSE [r EXCEPT !.A[idx + 1] = a, !.B[1] = b, !.C[idx + 1] = c]

\* setConstraint(idx, a, b, c) for 0 <= idx: the index test, then the three
\* row assignments (rows are 0-indexed in the code, 1-indexed here).  A
\* negative idx passes the test and writes before the vectors' storage:
\* see SetConstraint.
setConstraint(r, idx, a, b, c) ==
    IF idx >= r.num_constraints THEN RangeError
    ELSE [r EXCEPT !.A[idx + 1] = a, !.B[idx + 1] = b, !.C[idx + 1] = c]

RECURSIVE DotLoop(_, _, _, _)
\* for (j = 0; j < num_variables; j++) val = val + row[j] * witness[j],
\* on the locals <<val, j>>
DotLoop(row, witness, n, st) ==
    IF st[2] >= n THEN st[1]
    ELSE DotLoop(row, witness, n,
                 << FAdd(st[1], FMul(row[st[2] + 1], witness[st[2] + 1])),
                    st[2] + 1 >>)

Dot(row, witness, n) == DotLoop(row, witness, n, << FieldElement(0), 0 >>)

\* the body of verify's loop for row i (0-indexed): (a_val * b_val) == c_val
RowHolds(r, witness, i) ==
    FMul(Dot(r.A[i + 1], witness, r.num_variables),
         Dot(r.B[i + 1], witness, r.num_variables))
        = Dot(r.C[i + 1], witness, r.num_variables)

RECURSIVE VerifyLoop(_, _, _)
\* for (i = 0; i < num_constraints; i++) on the locals [i, reported]:
\* reported lists the rows printed, each with its [OK] or [FAIL]
VerifyLoop(r, witness, st) ==
    IF st.i >= r.num_constraints THEN [ret |-> TRUE, reported |-> st.reported]
    ELSE IF ~RowHolds(r, witness, st.i)
         THEN [ret |-> FALSE,
               reported |-> Append(st.reported, << st.i, "FAIL" >>)]
         ELSE VerifyLoop(r, witness,
                         [i |-> st.i + 1,
                          reported |-> Append(st.reported, << st.i, "OK" >>)])

\* bool verify(witness) const : the size test, then the rows in order
R1CSVerify(r, witness) ==
    IF Len(witness) # r.num_variables
    THEN [ret |-> FALSE, reported |-> << >>]
    ELSE VerifyLoop(r, witness, [i |-> 0, reported |-> << >>])

(***************************************************************************)
(* qap.h : Polynomial, LagrangeInterpolation, QAP                          *)
(***************************************************************************)

\* a std::vector holding the entries of the sequence f
Vector(f) == SubSeq(f, 1, Len(f))

\* Polynomial(coeffs) : coefficients(coeffs); coefficients[i] is the
\* coefficient of x^i
Polynomial(coeffs) == [coefficients |-> Vector(coeffs)]

RECURSIVE EvaluateLoop(_, _, _)
\* for (coeff : coefficients) { result = result + coeff * x_power;
\* x_power = x_power * x; } on the locals <<result, x_power, next index>>
EvaluateLoop(coeffs, xv, st) ==
    IF st[3] > Len(coeffs) THEN st[1]
    ELSE EvaluateLoop(coeffs, xv,
                      Value({ << FAdd(s[1], FMul(coeffs[s[3]], s[2])),
                                 FMul(s[2], xv), s[3] + 1 >> : s \in {st} }))

\* evaluate(x)
PolyEvaluate(p, xv) ==
    EvaluateLoop(p.coefficients, xv, << FieldElement(0), FieldElement(1), 1 >>)

Max(m, n) == IF m >= n THEN m ELSE n

Min(m, n) == IF m <= n THEN m ELSE n

\* for (i = 0; i < coeffs.size(); i++) result[i] = result[i] + coeffs[i]
AddInto(result, coeffs) ==
    Value({ Vector([i \in 1..Len(r) |->
                      IF i <= Len(c) THEN FAdd(r[i], c[i]) ELSE r[i]]) :
            r \in {result}, c \in {coeffs} })

\* operator+ with max_size taken as this polynomial's size: the other's
\* higher coefficients are dropped
PolyAddTruncated(p, q) ==
    Polynomial(AddInto(AddInto(ZeroRow(Len(p.coefficients)), p.coefficients),
                       SubSeq(q.coefficients, 1,
                              Min(Len(p.coefficients), Len(q.coefficients)))))

\* operator+(const Polynomial&): result_coeffs starts as max_size zeros and
\* receives this polynomial's coefficients, then the other's
PolyAdd(p, q) ==
    Polynomial(AddInto(AddInto(ZeroRow(Max(Len(p.coefficients),
                                           Len(q.coefficients))),
                               p.coefficients),
                       q.coefficients))

RECURSIVE ConvLoopFromOne(_, _, _, _)
\* the double loop with the inner index starting at 1: the products with
\* g[0] are left out
ConvLoopFromOne(f, g, k, st) ==
    IF st[2] >= Len(f) THEN st[1]
    ELSE ConvLoopFromOne(f, g, k,
                  Value({ << IF k - s[2] >= 1 /\ k - s[2] < Len(g)
                             THEN FAdd(s[1], FMul(f[s[2] + 1], g[k - s[2] + 1]))
                             ELSE s[1],
                             s[2] + 1 >> : s \in {st} }))

RECURSIVE ConvLoop(_, _, _, _)
\* result_coeffs[k] after the double loop: the products f[i] * g[k - i]
\* added in increasing i (k, i 0-indexed), on the locals <<sum, i>>
ConvLoop(f, g, k, st) ==
    IF st[2] >= Len(f) THEN st[1]
    ELSE ConvLoop(f, g, k,
                  Value({ << IF k - s[2] >= 0 /\ k - s[2] < Len(g)
                             THEN FAdd(s[1], FMul(f[s[2] + 1], g[k - s[2] + 1]))
                             ELSE s[1],
                             s[2] + 1 >> : s \in {st} }))

\* operator*(const Polynomial&)
PolyMul(p, q) ==
    Value({ IF Len(f) = 0 \/ Len(g) = 0 THEN Polynomial(<< >>)
            ELSE Polynomial([k \in 1..(Len(f) + Len(g) - 1) |->
                               ConvLoop(f, g, k - 1, << FieldElement(0), 0 >>)]) :
            f \in {p.coefficients}, g \in {q.coefficients} })

\* operator*(const FieldElement& scalar)
PolyScale(p, scalar) ==
    Value({ Polynomial([i \in 1..Len(f) |-> FMul(f[i], k)]) :
            f \in {p.coefficients}, k \in {scalar} })

RECURSIVE BasisLoop(_, _, _)
\* the loop of basisPolynomial(j, x_values) on the locals [result, i];
\* DivisionError when FieldElement(1) / denominator throws
BasisLoop(j, x_values, st) ==
    IF st.i >= Len(x_values) THEN st.result
    ELSE IF st.i = j THEN BasisLoop(j, x_values, [st EXCEPT !.i = st.i + 1])
    ELSE Value({ IF ~quot.ok THEN DivisionError
                 ELSE BasisLoop(j, x_values,
                                [result |-> PolyScale(PolyMul(st.result, numerator),
                                                      quot.v),
                                 i |-> st.i + 1]) :
                 numerator \in { Polynomial(<< FSub(FieldElement(0),
                                                    x_values[st.i + 1]),
                                               FieldElement(1) >>) },
                 quot \in { FDiv(FieldElement(1),
                                 FSub(x_values[j + 1], x_values[st.i + 1])) } })

\* basisPolynomial(j, x_values), j 0-indexed as in the code
basisPolynomial(j, x_values) ==
    BasisLoop(j, x_values, [result |-> Polynomial(<< FieldElement(1) >>), i |-> 0])

\* the failure raised by interpolate
LengthMismatchError == [error |-> "x and y value sizes must match"]

RECURSIVE InterpolateLoop(_, _, _)
\* for (j = 0; j < x_values.size(); j++) on the locals [result, j]
InterpolateLoop(x_values, y_values, st) ==
    IF st.j >= Len(x_values) THEN st.result
    ELSE Value({ IF IsError(basis) THEN basis
                 ELSE InterpolateLoop(x_values, y_values,
                         [result |-> PolyAdd(st.result,
                                             PolyScale(basis, y_values[st.j + 1])),
                          j |-> st.j + 1]) :
                 basis \in { basisPolynomial(st.j, x_values) } })

\* interpolate building the basis polynomials before it compares the sizes
interpolateBasisFirst(x_values, y_values) ==
    IF \E j \in 0..(Len(x_values) - 1) : IsError(basisPolynomial(j, x_values))
    THEN DivisionError
    ELSE IF Len(x_values) # Len(y_values) THEN LengthMismatchError
    ELSE InterpolateLoop(x_values, y_values,
                         [result |-> Polynomial(<< FieldElement(0) >>), j |-> 0])

\* interpolate(x_values, y_values)
interpolate(x_values, y_values) ==
    IF Len(x_values) # Len(y_values) THEN LengthMismatchError
    ELSE InterpolateLoop(x_values, y_values,
                         [result |-> Polynomial(<< FieldElement(0) >>), j |-> 0])

\* x_values as FieldElement(i) for i = 0 .. num_constraints - 1
EvaluationPointsFromZero(r) ==
    Vector([i \in 1..r.num_constraints |-> FieldElement(i - 1)])

\* x_values of fromR1CS: FieldElement(i + 1) for i = 0 .. num_constraints - 1
EvaluationPoints(r) == Vector([i \in 1..r.num_constraints |-> FieldElement(i)])

\* the column of variable var (0-indexed) across the constraints
Column(M, r, var) == Vector([k \in 1..r.num_constraints |-> M[k][var + 1]])

RECURSIVE TargetLoop(_, _)
\* for (x : x_values) Z = Z * Polynomial({0 - x, 1}) on the locals <<Z, next>>
TargetLoop(x_values, st) ==
    IF st[2] > Len(x_values) THEN st[1]
    ELSE TargetLoop(x_values,
                    Value({ << PolyMul(s[1],
                                       Polynomial(<< FSub(FieldElement(0),
                                                          x_values[s[2]]),
                                                     FieldElement(1) >>)),
                               s[2] + 1 >> : s \in {st} }))

\* QAP::fromR1CS(r1cs).  An interpolation that throws ends the call with
\* its error.
fromR1CS(r) ==
    Value({ IF \E var \in 1..r.num_variables :
                  IsError(a[var]) \/ IsError(b[var]) \/ IsError(c[var])
            THEN DivisionError
            ELSE [A_polys |-> a, B_polys |-> b, C_polys |-> c,
                  Z |-> TargetLoop(EvaluationPoints(r),
                                   << Polynomial(<< FieldElement(1) >>), 1 >>),
                  num_variables |-> r.num_variables] :
            a \in { Vector([var \in 1..r.num_variables |->
                              interpolate(EvaluationPoints(r),
                                          Column(r.A, r, var - 1))]) },
            b \in { Vector([var \in 1..r.num_variables |->
                              interpolate(EvaluationPoints(r),
                                          Column(r.B, r, var - 1))]) },
            c \in { Vector([var \in 1..r.num_variables |->
                              interpolate(EvaluationPoints(r),
                                          Column(r.C, r, var - 1))]) } })

RECURSIVE CombineLoop(_, _, _, _)
\* X_x = X_x + polys[i] * witness[i] for i < num_variables, on <<X_x, i>>
CombineLoop(polys, witness, n, st) ==
    IF st[2] >= n THEN st[1]
    ELSE CombineLoop(polys, witness, n,
                     Value({ << PolyAdd(s[1], PolyScale(polys[s[2] + 1],
                                                        witness[s[2] + 1])),
                                s[2] + 1 >> : s \in {st} }))

\* computePolynomials with its loop starting at i = 1
computePolynomialsFromOne(q, witness) ==
    [A_x |-> CombineLoop(q.A_polys, witness, q.num_variables,
                         << Polynomial(<< FieldElement(0) >>), 1 >>),
     B_x |-> CombineLoop(q.B_polys, witness, q.num_variables,
                         << Polynomial(<< FieldElement(0) >>), 1 >>),
     C_x |-> CombineLoop(q.C_polys, witness, q.num_variables,
                         << Polynomial(<< FieldElement(0) >>), 1 >>)]

\* computePolynomials(witness, A_x, B_x, C_x)
computePolynomials(q, witness) ==
    [A_x |-> CombineLoop(q.A_polys, witness, q.num_variables,
                         << Polynomial(<< FieldElement(0) >>), 0 >>),
     B_x |-> CombineLoop(q.B_polys, witness, q.num_variables,
                         << Polynomial(<< FieldElement(0) >>), 0 >>),
     C_x |-> CombineLoop(q.C_polys, witness, q.num_variables,
                         << Polynomial(<< FieldElement(0) >>), 0 >>)]

(***************************************************************************)
(* zksnark.h : ProvingKey, VerificationKey, Proof, zkSNARK                 *)
(***************************************************************************)

\* a default-constructed ProvingKey / VerificationKey / Proof
EmptyProvingKey ==
    [A_query |-> << >>, B_query |-> << >>, C_query |-> << >>,
     alpha |-> Infinity, beta |-> Infinity, delta |-> Infinity,
     Z_query |-> << >>]

EmptyVerificationKey ==
    [alpha |-> Infinity, beta |-> Infinity, gamma |-> Infinity,
     delta |-> Infinity, IC |-> << >>]

EmptyProof == [A |-> Infinity, B |-> Infinity, C |-> Infinity]

\* ECPoint::setCurveParams(FieldElement(0), FieldElement(7)) in setup, prove
ProtocolCurve == [a |-> FieldElement(0), b |-> FieldElement(7)]

\* a generator of order two: doubling it divides by zero
GeneratorOfOrderTwo == ECPoint(FieldElement(2), FieldElement(0))

\* ECPoint G(FieldElement(2), FieldElement(1234567))
Generator == ECPoint(FieldElement(2), FieldElement(1234567))

\* The n-th write of setup in program order, with the point it stores: per
\* variable the three query push_backs, then pk.alpha, pk.beta, pk.delta,
\* vk.alpha .. vk.delta, then the IC push_backs G * (i + 1).
\* scalars = [tau, alpha, beta, gamma, delta]
SetupWriteAt(q, scalars, n) ==
    LET a  == ProtocolCurve.a
        nq == 3 * q.num_variables
    IN  IF n <= nq
        THEN LET i     == ((n - 1) \div 3) + 1
                 which == (n - 1) % 3
                 poly  == CASE which = 0 -> q.A_polys[i]
                            [] which = 1 -> q.B_polys[i]
                            [] which = 2 -> q.C_polys[i]
             IN  [to |-> CASE which = 0 -> "pk.A_query"
                           [] which = 1 -> "pk.B_query"
                           [] which = 2 -> "pk.C_query",
                  pt |-> ECMul(Generator,
                               PolyEvaluate(poly, FieldElement(scalars.tau)), a)]
        ELSE IF n <= nq + 7
        THEN LET m == n - nq
             IN  [to |-> CASE m = 1 -> "pk.alpha" [] m = 2 -> "pk.beta"
                           [] m = 3 -> "pk.delta" [] m = 4 -> "vk.alpha"
                           [] m = 5 -> "vk.beta"  [] m = 6 -> "vk.gamma"
                           [] m = 7 -> "vk.delta",
                  pt |-> ECMul(Generator,
                               CASE m \in {1, 4} -> scalars.alpha
                                 [] m \in {2, 5} -> scalars.beta
                                 [] m = 6        -> scalars.gamma
                                 [] m \in {3, 7} -> scalars.delta, a)]
        ELSE [to |-> "vk.IC", pt |-> ECMul(Generator, n - nq - 7, a)]

\* one write w = [to, pt] of setup applied to keys = [pk, vk, thrown]
SetupWrite(keys, w) ==
    IF IsError(w.pt) THEN [keys EXCEPT !.thrown = TRUE]
    ELSE CASE w.to = "pk.A_query" ->
                [keys EXCEPT !.pk.A_query = Append(@, w.pt)]
           [] w.to = "pk.B_query" ->
                [keys EXCEPT !.pk.B_query = Append(@, w.pt)]
           [] w.to = "pk.C_query" ->
                [keys EXCEPT !.pk.C_query = Append(@, w.pt)]
           [] w.to = "pk.alpha" -> [keys EXCEPT !.pk.alpha = w.pt]
           [] w.to = "pk.beta"  -> [keys EXCEPT !.pk.beta = w.pt]
           [] w.to = "pk.delta" -> [keys EXCEPT !.pk.delta = w.pt]
           [] w.to = "vk.alpha" -> [keys EXCEPT !.vk.alpha = w.pt]
           [] w.to = "vk.beta"  -> [keys EXCEPT !.vk.beta = w.pt]
           [] w.to = "vk.gamma" -> [keys EXCEPT !.vk.gamma = w.pt]
           [] w.to = "vk.delta" -> [keys EXCEPT !.vk.delta = w.pt]
           [] w.to = "vk.IC"    -> [keys EXCEPT !.vk.IC = Append(@, w.pt)]

RECURSIVE SetupLoop(_, _, _, _, _)
\* the writes 1..last in order, up to the first curve operation that throws
SetupLoop(keys, q, scalars, last, n) ==
    IF n > last \/ keys.thrown THEN keys
    ELSE SetupLoop(Value({ SetupWrite(keys, w) :
                           w \in { SetupWriteAt(q, scalars, n) } }),
                   q, scalars, last, n + 1)

\* zkSNARK::setup(qap, r1cs, pk, vk, num_public_inputs) on the caller's pk
\* and vk; the result holds the keys as the call leaves them and whether it
\* threw
setup(q, pkey, vkey, scalars, num_public_inputs) ==
    SetupLoop([pk |-> pkey, vk |-> vkey, thrown |-> FALSE], q, scalars,
              3 * q.num_variables + 7 + num_public_inputs + 1, 1)

RECURSIVE ProveSumLoop(_, _, _, _)
\* for (i = 0; i < witness.size(); i++) if (i < query.size())
\*     acc = acc + query[i] * witness[i].getValue();   on the locals [acc, i]
ProveSumLoop(query, witness, a, st) ==
    IF st.i >= Len(witness) \/ IsError(st.acc) THEN st.acc
    ELSE IF st.i < Len(query)
         THEN Value({ IF IsError(term) THEN term
                      ELSE ProveSumLoop(query, witness, a,
                               [acc |-> ECAdd(st.acc, term, a), i |-> st.i + 1]) :
                      term \in { ECMul(query[st.i + 1], witness[st.i + 1], a) } })
         ELSE ProveSumLoop(query, witness, a, [st EXCEPT !.i = st.i + 1])

\* acc + blinding * scalar with the scalar cut to its low 31 bits
BlindLow(acc, blinding, scalar, a) ==
    Value({ IF IsError(sum) THEN sum
            ELSE Value({ IF IsError(term) THEN term ELSE ECAdd(sum, term, a) :
                         term \in { ECMulWide(blinding, << 0, scalar[2] >>, a) } }) :
            sum \in {acc} })

\* acc + blinding * scalar, for a scalar <<hi, lo>>
Blind(acc, blinding, scalar, a) ==
    Value({ IF IsError(sum) THEN sum
            ELSE Value({ IF IsError(term) THEN term ELSE ECAdd(sum, term, a) :
                         term \in { ECMulWide(blinding, scalar, a) } }) :
            sum \in {acc} })

\* zkSNARK::prove(qap, pk, witness, public_inputs) with the blinding factors
\* r, s that randomScalar() returned; the proof, or the error thrown
prove(q, pkey, witness, public_inputs, r, s) ==
    Value({ IF IsError(pA) THEN pA
            ELSE IF IsError(pB) THEN pB
            ELSE IF IsError(pC) THEN pC
            ELSE [A |-> pA, B |-> pB, C |-> pC] :
            pA \in { Blind(ProveSumLoop(pkey.A_query, witness, ProtocolCurve.a,
                                        [acc |-> Infinity, i |-> 0]),
                           pkey.alpha, U64(r), ProtocolCurve.a) },
            pB \in { Blind(ProveSumLoop(pkey.B_query, witness, ProtocolCurve.a,
                                        [acc |-> Infinity, i |-> 0]),
                           pkey.beta, U64(s), ProtocolCurve.a) },
            pC \in { Blind(ProveSumLoop(pkey.C_query, witness, ProtocolCurve.a,
                                        [acc |-> Infinity, i |-> 0]),
                           pkey.delta, WideMul(r, s), ProtocolCurve.a) } })

\* the element accesses of prove as << sequence, index, size >>: the print
\* loop and computePolynomials read witness[i], the latter with the
\* polynomials, for i < num_variables; the three sums read witness[i] and
\* query[i] for i < witness.size() and i < query.size()
ProveAccesses(q, pkey, witness) ==
    { << "witness", i, Len(witness) >> :
        i \in (0..(Len(witness) - 1)) \cup (0..(q.num_variables - 1)) }
      \cup { << "A_polys", i, Len(q.A_polys) >> : i \in 0..(q.num_variables - 1) }
      \cup { << "B_polys", i, Len(q.B_polys) >> : i \in 0..(q.num_variables - 1) }
      \cup { << "C_polys", i, Len(q.C_polys) >> : i \in 0..(q.num_variables - 1) }
      \cup { << "pk.A_query", i, Len(pkey.A_query) >> :
               i \in 0..(Min(Len(witness), Len(pkey.A_query)) - 1) }
      \cup { << "pk.B_query", i, Len(pkey.B_query) >> :
               i \in 0..(Min(Len(witness), Len(pkey.B_query)) - 1) }
      \cup { << "pk.C_query", i, Len(pkey.C_query) >> :
               i \in 0..(Min(Len(witness), Len(pkey.C_query)) - 1) }

RECURSIVE FoldInputsLoop(_, _, _, _)
\* for (i = 0; i < public_inputs.size(); i++) if (i + 1 < vk.IC.size())
\*     vk_x = vk_x + vk.IC[i + 1] * public_inputs[i].getValue();
FoldInputsLoop(IC, public_inputs, a, st) ==
    IF st.i >= Len(public_inputs) \/ IsError(st.vk_x) THEN st.vk_x
    ELSE IF st.i + 1 < Len(IC)
         THEN Value({ IF IsError(term) THEN term
                      ELSE FoldInputsLoop(IC, public_inputs, a,
                              [vk_x |-> ECAdd(st.vk_x, term, a), i |-> st.i + 1]) :
                      term \in { ECMul(IC[st.i + 2], public_inputs[st.i + 1], a) } })
         ELSE FoldInputsLoop(IC, public_inputs, a, [st EXCEPT !.i = st.i + 1])

\* verify also requiring the folded public inputs not to be at infinity
verifyFolded(vkey, prf, public_inputs, a) ==
    Value({ IF IsError(vk_x) THEN vk_x
            ELSE [ret  |-> ~prf.A.is_infinity /\ ~prf.B.is_infinity
                               /\ ~prf.C.is_infinity /\ ~vk_x.is_infinity,
                  vk_x |-> vk_x] :
            vk_x \in { FoldInputsLoop(vkey.IC, public_inputs, a,
                          [vk_x |-> IF Len(vkey.IC) # 0 THEN vkey.IC[1]
                                    ELSE Infinity,
                           i |-> 0]) } })

\* verify accepting a proof as soon as one of its components is finite
verifyAnyFinite(vkey, prf, public_inputs, a) ==
    Value({ IF IsError(vk_x) THEN vk_x
            ELSE [ret  |-> ~prf.A.is_infinity \/ ~prf.B.is_infinity
                               \/ ~prf.C.is_infinity,
                  vk_x |-> vk_x] :
            vk_x \in { FoldInputsLoop(vkey.IC, public_inputs, a,
                          [vk_x |-> IF Len(vkey.IC) # 0 THEN vkey.IC[1]
                                    ELSE Infinity,
                           i |-> 0]) } })

\* zkSNARK::verify(vk, proof, public_inputs) under the current static curve
\* parameter a: [ret, vk_x], or the error thrown while folding the inputs
verify(vkey, prf, public_inputs, a) ==
    Value({ IF IsError(vk_x) THEN vk_x
            ELSE [ret  |-> ~prf.A.is_infinity /\ ~prf.B.is_infinity
                               /\ ~prf.C.is_infinity,
                  vk_x |-> vk_x] :
            vk_x \in { FoldInputsLoop(vkey.IC, public_inputs, a,
                          [vk_x |-> IF Len(vkey.IC) # 0 THEN vkey.IC[1]
                                    ELSE Infinity,
                           i |-> 0]) } })

(***************************************************************************)
(* State                                                                   *)
(***************************************************************************)

VARIABLES
    curve,   \* ECPoint::a, ECPoint::b, the process-wide curve parameters
    r1cs,    \* the caller's R1CS object
    qap,     \* the caller's QAP object
    pk,      \* the caller's ProvingKey
    vk,      \* the caller's VerificationKey
    proof,   \* the caller's Proof
    caller_witness,  \* the witness vector the caller hands to prove
    caller_inputs,   \* the public_inputs vector the caller hands to prove and verify
    phase,   \* the caller's position in its sequence of calls
    call     \* the call being returned to the caller: operation, arguments, result

vars ==
    << curve, r1cs, qap, pk, vk, proof, caller_witness, caller_inputs, phase, call >>

\* no call is being returned
NoCall == [op |-> "none"]

\* static members: FieldElement ECPoint::a(0); FieldElement ECPoint::b(7);
DefaultCurve == [a |-> FieldElement(0), b |-> FieldElement(7)]

\* a QAP object that fromR1CS has not filled yet
NoQAP ==
    [A_polys |-> << >>, B_polys |-> << >>, C_polys |-> << >>,
     Z |-> Polynomial(<< >>), num_variables |-> 0]

\* the caller picks up the result; the next call can start
Return ==
    /\ call # NoCall
    /\ call' = NoCall
    /\ UNCHANGED << curve, r1cs, qap, pk, vk, proof, caller_witness, caller_inputs, phase >>

(***************************************************************************)
(* elliptic_curve.h as a state machine: a caller sets the curve            *)
(* parameters, adds points and multiplies points by scalars.               *)
(***************************************************************************)

\* points are sampled with x-coordinates 0..MaxX
MaxX == 3

\* scalars are sampled from 0..MaxScalar
MaxScalar == 5

\* the parameter pairs handed to setCurveParams: the protocol's y^2 = x^3 + 7,
\* y^2 = x^3 - 1 and y^2 = x^3 - x
CurveChoices ==
    { [a |-> FieldElement(0), b |-> FieldElement(7)],
      [a |-> FieldElement(0), b |-> SMALL_PRIME - 1],
      [a |-> SMALL_PRIME - 1, b |-> FieldElement(0)] }

\* a square root of v when v is a square (SMALL_PRIME = 3 mod 4)
Sqrt(v) == FPower(v, (SMALL_PRIME \div 4) + 1)

\* the points a caller builds with ECPoint() and ECPoint(x, y): infinity, the
\* protocol's generator, and both points of curve c over each sampled x
PointChoices(c) ==
    LET rhs(xv) == FAdd(FAdd(FMul(FMul(xv, xv), xv), FMul(c.a, xv)), c.b)
        onCurve == { pt \in { ECPoint(xv, Sqrt(rhs(xv))) : xv \in 0..MaxX } :
                       OnCurve(pt, c) }
    IN  {Infinity, Generator} \cup onCurve
          \cup { ECPoint(pt.x, FSub(FieldElement(0), pt.y)) : pt \in onCurve }

InitCurve ==
    /\ curve = DefaultCurve
    /\ r1cs = R1CS(0, 0)
    /\ qap = NoQAP
    /\ pk = EmptyProvingKey
    /\ vk = EmptyVerificationKey
    /\ proof = EmptyProof
    /\ caller_witness = << >>
    /\ caller_inputs = << >>
    /\ phase = "curve"
    /\ call = NoCall

\* ECPoint::setCurveParams(a_val, b_val)
SetCurveParams(a_val, b_val) ==
    /\ call = NoCall
    /\ curve' = [a |-> a_val, b |-> b_val]
    /\ UNCHANGED << r1cs, qap, pk, vk, proof, caller_witness, caller_inputs, phase, call >>

\* p + other
Add(p, other) ==
    /\ call = NoCall
    /\ call' = [op |-> "operator+", p |-> p, other |-> other,
                divisions |-> SlopeDivisions(p, other),
                ret |-> ECAdd(p, other, curve.a)]
    /\ UNCHANGED << curve, r1cs, qap, pk, vk, proof, caller_witness, caller_inputs, phase >>

\* p * scalar
Mul(p, scalar) ==
    /\ call = NoCall
    /\ call' = [op |-> "operator*", p |-> p, scalar |-> scalar,
                ret |-> ECMul(p, scalar, curve.a)]
    /\ UNCHANGED << curve, r1cs, qap, pk, vk, proof, caller_witness, caller_inputs, phase >>

NextCurve ==
    \/ \E c \in CurveChoices : SetCurveParams(c.a, c.b)
    \/ /\ call = NoCall
       /\ \E p \in PointChoices(curve), other \in PointChoices(curve) : Add(p, other)
    \/ /\ call = NoCall
       /\ \E p \in PointChoices(curve), scalar \in 0..MaxScalar : Mul(p, scalar)
    \/ Return

SpecCurve == InitCurve /\ [][NextCurve]_vars

RECURSIVE RepeatedAdd(_, _, _)
\* the k-fold sum p + p + ... + p computed with operator+
RepeatedAdd(p, k, a) ==
    IF k = 0 THEN Infinity
    ELSE IF k = 1 THEN p
    ELSE LET sum == RepeatedAdd(p, k - 1, a)
         IN  IF IsError(sum) THEN sum ELSE ECAdd(sum, p, a)

\* C8: for every non-infinity point P = (x, y) on the curve, points with
\* y = 0 included, P + (x, -y) completes without error and returns the point
\* at infinity.
C8_AdditiveInverse ==
    ( /\ call.op = "operator+"
      /\ ~call.p.is_infinity
      /\ OnCurve(call.p, curve)
      /\ call.other = ECPoint(call.p.x, FSub(FieldElement(0), call.p.y)) )
    => call.ret = Infinity

\* C9: for every point P on the curve, of any order, and every scalar k >= 0,
\* P * k completes without error and equals the k-fold sum P + ... + P
\* computed with operator+.
C9_ScalarMulIsRepeatedAdd ==
    ( /\ call.op = "operator*"
      /\ (call.p.is_infinity \/ OnCurve(call.p, curve)) )
    => /\ ~IsError(call.ret)
       /\ call.ret = RepeatedAdd(call.p, call.scalar, curve.a)

(***************************************************************************)
(* r1cs.h and qap.h as a state machine: a caller constructs an R1CS, fills *)
(* and verifies it, converts it with fromR1CS and combines the QAP with a  *)
(* witness.                                                                *)
(***************************************************************************)

\* setConstraint is called with indices -1..MaxIdx
MaxIdx == 3

\* witnesses are built from inputs x in 0..MaxInput
MaxInput == 3

\* a function that returns nothing has returned
Void == [void |-> TRUE]

\* the process has died inside the call
Crashed == [crashed |-> TRUE]

\* the (vars, constraints) handed to the constructor: simple_example.cpp,
\* main.cpp, and a system without constraints
ShapeChoices == { << 3, 1 >>, << 5, 3 >>, << 1, 0 >> }

\* simple_example.cpp: x * x = out over [1, x, out]
SquareRows == << << << 0, 1, 0 >>, << 0, 1, 0 >>, << 0, 0, 1 >> >> >>

\* main.cpp createCubicR1CS: x*x = sym1, sym1*x = sym2, (sym2 + x + 5)*1 = out
\* over [1, x, out, sym1, sym2]
CubicRows ==
    << << << 0, 1, 0, 0, 0 >>, << 0, 1, 0, 0, 0 >>, << 0, 0, 0, 1, 0 >> >>,
       << << 0, 0, 0, 1, 0 >>, << 0, 1, 0, 0, 0 >>, << 0, 0, 0, 0, 1 >> >>,
       << << 5, 1, 0, 0, 1 >>, << 1, 0, 0, 0, 0 >>, << 0, 0, 1, 0, 0 >> >> >>

\* the example's constraints for a system of nv variables
ExampleRows(nv) ==
    IF nv = 3 THEN SquareRows
    ELSE IF nv = 5 THEN CubicRows
    ELSE << << << 1 >>, << 1 >>, << 1 >> >> >>

\* the (a, b, c) handed to setConstraint: the example's rows, and rows that
\* are one entry short and one entry long
ConstraintChoices(nv) ==
    LET rows == ExampleRows(nv)
        t    == rows[1]
    IN  { rows[n] : n \in 1..Len(rows) }
          \cup { << SubSeq(t[1], 1, nv - 1), t[2], t[3] >>,
                 << t[1], t[2], Append(t[3], FieldElement(0)) >> }

\* the witnesses handed to verify and computePolynomials: the example's
\* witness for input x with out off by d, the cubic's intermediate values
\* off by one, and witnesses one entry short and one entry long
WitnessChoices(nv) ==
    LET cube(xv) == xv * xv * xv
        good == IF nv = 3
                THEN { << 1, xv, xv * xv + d >> : xv \in 0..MaxInput, d \in {0, 1} }
                ELSE IF nv = 5
                THEN { << 1, xv, cube(xv) + xv + 5 + d, xv * xv, cube(xv) >> :
                         xv \in 0..MaxInput, d \in {0, 1} }
                       \cup { << 1, 3, 35, 10, 27 >>, << 1, 3, 35, 9, 28 >> }
                ELSE { << 1 >>, << 0 >> }
        w == CHOOSE v \in good : v[nv] # 0
    IN  good \cup { SubSeq(w, 1, nv - 1), Append(w, FieldElement(0)) }

\* what a read past the end of a vector's storage can yield
GarbageChoices == { FieldElement(0), FieldElement(1) }

\* what reading n entries of a vector of length len yields past its end:
\* nothing is read there when the vector is long enough
PastEnd(len, n) == IF len < n THEN GarbageChoices ELSE { FieldElement(0) }

\* row as the loops over j < n read it when the entries past its end read g
PadRow(row, n, g) ==
    [j \in 1..Max(n, Len(row)) |-> IF j <= Len(row) THEN row[j] ELSE g]

\* r as verify and fromR1CS read it when the entries missing from short rows
\* read g
Pad(r, g) ==
    [r EXCEPT !.A = [i \in 1..Len(r.A) |-> PadRow(r.A[i], r.num_variables, g)],
              !.B = [i \in 1..Len(r.B) |-> PadRow(r.B[i], r.num_variables, g)],
              !.C = [i \in 1..Len(r.C) |-> PadRow(r.C[i], r.num_variables, g)]]

\* row i (0-indexed) of A, B or C has fewer than num_variables entries
RowShort(r, i) ==
    \/ Len(r.A[i + 1]) < r.num_variables
    \/ Len(r.B[i + 1]) < r.num_variables
    \/ Len(r.C[i + 1]) < r.num_variables

HasShortRow(r) == \E i \in 0..(r.num_constraints - 1) : RowShort(r, i)

\* what the reads past the end of r's short rows can yield
PastRows(r) == IF HasShortRow(r) THEN GarbageChoices ELSE { FieldElement(0) }

InitR1CS ==
    /\ curve = DefaultCurve
    /\ \E shape \in ShapeChoices : r1cs = R1CS(shape[1], shape[2])
    /\ qap = NoQAP
    /\ pk = EmptyProvingKey
    /\ vk = EmptyVerificationKey
    /\ proof = EmptyProof
    /\ caller_witness = << >>
    /\ caller_inputs = << >>
    /\ phase = "building"
    /\ call = NoCall

\* r1cs.setConstraint(idx, a, b, c).  A negative idx passes the index test
\* and A[idx] = a writes before the start of A's storage: the process dies,
\* or the write lands outside the object and the call returns.
SetConstraint(idx, a, b, c) ==
    /\ phase = "building"
    /\ call = NoCall
    /\ LET this == [op |-> "setConstraint", idx |-> idx, a |-> a, b |-> b, c |-> c]
           res  == setConstraint(r1cs, idx, a, b, c)
       IN  IF idx < 0
           THEN /\ \E ret \in {Crashed, Void} :
                     /\ call' = this @@ [ret |-> ret]
                     /\ phase' = IF ret = Crashed THEN "crashed" ELSE phase
                /\ UNCHANGED r1cs
           ELSE IF IsError(res)
           THEN /\ call' = this @@ [ret |-> res]
                /\ UNCHANGED << r1cs, phase >>
           ELSE /\ r1cs' = res
                /\ call' = this @@ [ret |-> Void]
                /\ UNCHANGED phase
    /\ UNCHANGED << curve, qap, pk, vk, proof, caller_witness, caller_inputs >>

\* r1cs.verify(witness).  A row shorter than num_variables is read past its
\* end: the read yields some value, or the process dies.
Verify(witness) ==
    /\ phase = "building"
    /\ call = NoCall
    /\ \/ \E g \in PastRows(r1cs) :
            /\ call' = [op |-> "verify", witness |-> witness,
                        ret |-> R1CSVerify(Pad(r1cs, g), witness)]
            /\ UNCHANGED phase
       \/ /\ HasShortRow(r1cs)
          /\ \E g \in PastRows(r1cs) :
                \E reported \in { R1CSVerify(Pad(r1cs, g), witness).reported } :
                  \E n \in 1..Len(reported) : RowShort(r1cs, reported[n][1])
          /\ call' = [op |-> "verify", witness |-> witness, ret |-> Crashed]
          /\ phase' = "crashed"
    /\ UNCHANGED << curve, r1cs, qap, pk, vk, proof, caller_witness, caller_inputs >>

\* qap = QAP::fromR1CS(r1cs), which reads every row up to num_variables
FromR1CS ==
    /\ phase = "building"
    /\ call = NoCall
    /\ \/ \E g \in PastRows(r1cs) : \E res \in { fromR1CS(Pad(r1cs, g)) } :
                IF IsError(res)
                THEN /\ call' = [op |-> "fromR1CS", ret |-> res]
                     /\ UNCHANGED << qap, phase >>
                ELSE /\ qap' = res
                     /\ call' = [op |-> "fromR1CS", ret |-> Void]
                     /\ phase' = "converted"
       \/ /\ HasShortRow(r1cs)
          /\ call' = [op |-> "fromR1CS", ret |-> Crashed]
          /\ phase' = "crashed"
          /\ UNCHANGED qap
    /\ UNCHANGED << curve, r1cs, pk, vk, proof, caller_witness, caller_inputs >>

\* qap.computePolynomials(witness, A_x, B_x, C_x), which reads witness[i] for
\* every i < num_variables
ComputePolynomials(witness) ==
    /\ phase = "converted"
    /\ call = NoCall
    /\ \/ \E g \in PastEnd(Len(witness), qap.num_variables) :
            /\ call' = [op |-> "computePolynomials", witness |-> witness,
                        ret |-> computePolynomials(qap,
                                    PadRow(witness, qap.num_variables, g))]
            /\ UNCHANGED phase
       \/ /\ Len(witness) < qap.num_variables
          /\ call' = [op |-> "computePolynomials", witness |-> witness,
                      ret |-> Crashed]
          /\ phase' = "crashed"
    /\ UNCHANGED << curve, r1cs, qap, pk, vk, proof, caller_witness, caller_inputs >>

NextR1CS ==
    \/ /\ phase = "building" /\ call = NoCall
       /\ \E idx \in (-1)..MaxIdx, t \in ConstraintChoices(r1cs.num_variables) :
            SetConstraint(idx, t[1], t[2], t[3])
    \/ /\ phase = "building" /\ call = NoCall
       /\ \E witness \in WitnessChoices(r1cs.num_variables) : Verify(witness)
    \/ FromR1CS
    \/ /\ phase = "converted" /\ call = NoCall
       /\ \E witness \in WitnessChoices(r1cs.num_variables) :
            ComputePolynomials(witness)
    \/ Return

SpecR1CS == InitR1CS /\ [][NextR1CS]_vars

\* every matrix has num_constraints rows of num_variables entries
WellShaped(r) ==
    \A M \in { r.A, r.B, r.C } :
        /\ Len(M) = r.num_constraints
        /\ \A i \in 1..Len(M) : Len(M[i]) = r.num_variables

RECURSIVE InnerProduct(_, _, _)
\* row[1] * w[1] + ... + row[n] * w[n] in the field
InnerProduct(row, w, n) ==
    IF n = 0 THEN FieldElement(0)
    ELSE FAdd(InnerProduct(row, w, n - 1), FMul(row[n], w[n]))

\* (A_i . w) * (B_i . w) = (C_i . w) for row i (0-indexed), each product over
\* the entries the row and w both have
Satisfied(r, w, i) ==
    LET dot(row) == InnerProduct(row, w, Min(Len(row), Len(w)))
    IN  FMul(dot(r.A[i + 1]), dot(r.B[i + 1])) = dot(r.C[i + 1])

\* w has num_variables entries and satisfies every row
SatisfiedBy(r, w) ==
    /\ Len(w) = r.num_variables
    /\ \A i \in 0..(r.num_constraints - 1) : Satisfied(r, w, i)

\* C7: in every state reached by constructing R1CS(vars, constraints) and
\* then applying any sequence of setConstraint calls, with rows of any
\* length, each of A, B, C has exactly num_constraints rows and every row has
\* exactly num_variables entries.
C7_ShapeInvariant == WellShaped(r1cs)

\* C4: verify(witness) returns, and returns true if and only if the witness
\* has exactly num_variables entries and every constraint row i satisfies
\* (A_i . witness) * (B_i . witness) = (C_i . witness); in particular it
\* returns false whenever the witness length differs from num_variables.
C4_VerifyIff ==
    call.op = "verify"
    => /\ call.ret # Crashed
       /\ call.ret.ret = SatisfiedBy(r1cs, call.witness)
       /\ (Len(call.witness) # r1cs.num_variables => call.ret.ret = FALSE)

\* the polynomial of entry i (0-indexed) of polys takes at point k the entry
\* i of row k - 1 of matrix M
Interpolates(polys, M, k, i) ==
    /\ i + 1 <= Len(M[k])
    /\ PolyEvaluate(polys[i + 1], FieldElement(k)) = M[k][i + 1]

\* C5: after qap = fromR1CS(r1cs), for every constraint index k in
\* 1..num_constraints and every variable i in 0..num_variables-1,
\* A_polys[i](k) = A[k-1][i], B_polys[i](k) = B[k-1][i] and
\* C_polys[i](k) = C[k-1][i]; and qap has exactly num_variables polynomials
\* in each of A_polys, B_polys, C_polys.
C5_InterpolationInvariant ==
    phase = "converted"
    => /\ Len(qap.A_polys) = r1cs.num_variables
       /\ Len(qap.B_polys) = r1cs.num_variables
       /\ Len(qap.C_polys) = r1cs.num_variables
       /\ \A k \in 1..r1cs.num_constraints, i \in 0..(r1cs.num_variables - 1) :
            /\ Interpolates(qap.A_polys, r1cs.A, k, i)
            /\ Interpolates(qap.B_polys, r1cs.B, k, i)
            /\ Interpolates(qap.C_polys, r1cs.C, k, i)

\* A(k) * B(k) = C(k) for the combined polynomials abc = [A_x, B_x, C_x]
IdentityAt(abc, k) ==
    FMul(PolyEvaluate(abc.A_x, FieldElement(k)),
         PolyEvaluate(abc.B_x, FieldElement(k)))
        = PolyEvaluate(abc.C_x, FieldElement(k))

\* C3: for every R1CS whose rows all have num_variables entries and every
\* witness of length num_variables, the polynomials returned by
\* fromR1CS(r1cs).computePolynomials(witness) satisfy A(k) * B(k) = C(k), for
\* each k in 1..num_constraints, exactly when row k - 1 is satisfied; so the
\* identity holds at every k exactly when verify(witness) is true, and for a
\* non-satisfying witness it fails at the first unsatisfied index.
C3_Bridge ==
    ( /\ call.op = "computePolynomials"
      /\ WellShaped(r1cs)
      /\ Len(call.witness) = r1cs.num_variables )
    => LET points == 1..r1cs.num_constraints
           failed == { k \in points : ~Satisfied(r1cs, call.witness, k - 1) }
       IN  /\ call.ret # Crashed
           /\ \A k \in points :
                IdentityAt(call.ret, k) <=> Satisfied(r1cs, call.witness, k - 1)
           /\ (\A k \in points : IdentityAt(call.ret, k))
                <=> R1CSVerify(r1cs, call.witness).ret
           /\ \A k \in failed :
                (\A l \in failed : k <= l) => ~IdentityAt(call.ret, k)

\* the cubic system with a witness whose sym2 is off by one: the identity
\* holds at point 1 and fails at point 2, the first unsatisfied row
C3_Witness ==
    /\ call.op = "computePolynomials"
    /\ WellShaped(r1cs)
    /\ r1cs.num_constraints = 3
    /\ call.witness = << 1, 3, 35, 9, 28 >>
    /\ \A i \in 0..2 : r1cs.A[i + 1] = CubicRows[i + 1][1]
                    /\ r1cs.B[i + 1] = CubicRows[i + 1][2]
                    /\ r1cs.C[i + 1] = CubicRows[i + 1][3]
    /\ IdentityAt(call.ret, 1)
    /\ ~IdentityAt(call.ret, 2)
    /\ ~R1CSVerify(r1cs, call.witness).ret

\* field elements sampled for x: 0..MaxPoint and the largest ones
MaxPoint == 5

PointSamples == (0..MaxPoint) \cup { SMALL_PRIME - 2, SMALL_PRIME - 1 }

\* C6: for qap = fromR1CS(r1cs) with m = num_constraints and every field
\* element x, qap.Z.evaluate(x) = 0 if and only if x is one of the
\* evaluation points 1..m; and these are the points, in constraint order,
\* at which the per-variable polynomials of a system with full rows take
\* the rows' entries.
C6_TargetRoots ==
    phase = "converted"
    => /\ \A xv \in PointSamples :
            (PolyEvaluate(qap.Z, FieldElement(xv)) = FieldElement(0))
                <=> (xv \in 1..r1cs.num_constraints)
       /\ Len(qap.Z.coefficients) = r1cs.num_constraints + 1
       /\ WellShaped(r1cs)
            => \A k \in 1..r1cs.num_constraints,
                  i \in 0..(r1cs.num_variables - 1) :
                 /\ PolyEvaluate(qap.Z, FieldElement(k)) = FieldElement(0)
                 /\ Interpolates(qap.A_polys, r1cs.A, k, i)
                 /\ Interpolates(qap.B_polys, r1cs.B, k, i)
                 /\ Interpolates(qap.C_polys, r1cs.C, k, i)

\* a QAP of three constraints: Z vanishes at 1, 2, 3 and not at 0 or 4
C6_Witness ==
    /\ phase = "converted"
    /\ r1cs.num_constraints = 3
    /\ \A xv \in 1..3 : PolyEvaluate(qap.Z, xv) = 0
    /\ PolyEvaluate(qap.Z, 0) # 0
    /\ PolyEvaluate(qap.Z, 4) # 0

(***************************************************************************)
(* qap.h's Polynomial and LagrangeInterpolation as a state machine: a      *)
(* caller interpolates, builds basis polynomials and multiplies.           *)
(***************************************************************************)

\* coefficient and point vectors have up to MaxLen entries
MaxLen == 3

\* the field elements the vectors are filled with
FieldSamples == { FieldElement(0), FieldElement(1), SMALL_PRIME - 1 }

\* the vectors of up to MaxLen sampled field elements
VectorChoices ==
    UNION { [1..n -> FieldSamples] : n \in 0..MaxLen }

InitPoly ==
    /\ curve = DefaultCurve
    /\ r1cs = R1CS(0, 0)
    /\ qap = NoQAP
    /\ pk = EmptyProvingKey
    /\ vk = EmptyVerificationKey
    /\ proof = EmptyProof
    /\ caller_witness = << >>
    /\ caller_inputs = << >>
    /\ phase = "polynomials"
    /\ call = NoCall

\* LagrangeInterpolation::interpolate(x_values, y_values)
Interpolate(x_values, y_values) ==
    /\ call = NoCall
    /\ call' = [op |-> "interpolate", x_values |-> x_values,
                y_values |-> y_values,
                ret |-> interpolate(x_values, y_values)]
    /\ UNCHANGED << curve, r1cs, qap, pk, vk, proof, caller_witness, caller_inputs, phase >>

\* LagrangeInterpolation::basisPolynomial(j, x_values) for j < x_values.size()
BasisPolynomial(j, x_values) ==
    /\ call = NoCall
    /\ j < Len(x_values)
    /\ call' = [op |-> "basisPolynomial", j |-> j, x_values |-> x_values,
                ret |-> basisPolynomial(j, x_values)]
    /\ UNCHANGED << curve, r1cs, qap, pk, vk, proof, caller_witness, caller_inputs, phase >>

\* Polynomial(f) * Polynomial(g)
Multiply(f, g) ==
    /\ call = NoCall
    /\ call' = [op |-> "operator*", f |-> f, g |-> g,
                ret |-> PolyMul(Polynomial(f), Polynomial(g))]
    /\ UNCHANGED << curve, r1cs, qap, pk, vk, proof, caller_witness, caller_inputs, phase >>

NextPoly ==
    \/ /\ call = NoCall
       /\ \E x_values \in VectorChoices, y_values \in VectorChoices :
            Interpolate(x_values, y_values)
    \/ /\ call = NoCall
       /\ \E x_values \in VectorChoices, j \in 0..(MaxLen - 1) :
            BasisPolynomial(j, x_values)
    \/ /\ call = NoCall
       /\ \E f \in VectorChoices, g \in VectorChoices : Multiply(f, g)
    \/ Return

SpecPoly == InitPoly /\ [][NextPoly]_vars

\* no two entries of xs coincide
PairwiseDistinct(xs) ==
    \A i \in 1..Len(xs), j \in 1..Len(xs) : i # j => xs[i] # xs[j]

\* C10: for every sequence xs of pairwise-distinct field elements and every
\* ys of the same length n >= 1, p = interpolate(xs, ys) satisfies
\* p.evaluate(xs[i]) = ys[i] for every i, and p has at most n coefficients.
C10_InterpolationRoundTrip ==
    ( /\ call.op = "interpolate"
      /\ Len(call.x_values) = Len(call.y_values)
      /\ Len(call.x_values) >= 1
      /\ PairwiseDistinct(call.x_values) )
    => /\ ~IsError(call.ret)
       /\ \A i \in 1..Len(call.x_values) :
            PolyEvaluate(call.ret, call.x_values[i]) = call.y_values[i]
       /\ Len(call.ret.coefficients) <= Len(call.x_values)

\* three distinct points, the last of them the largest field element, with
\* three different values: the interpolant passes through all of them
C10_Witness ==
    /\ call.op = "interpolate"
    /\ call.x_values = << FieldElement(0), FieldElement(1), SMALL_PRIME - 1 >>
    /\ call.y_values = << FieldElement(1), SMALL_PRIME - 1, FieldElement(0) >>
    /\ ~IsError(call.ret)
    /\ Len(call.ret.coefficients) = 3
    /\ PolyEvaluate(call.ret, SMALL_PRIME - 1) = FieldElement(0)
    /\ PolyEvaluate(call.ret, FieldElement(1)) = SMALL_PRIME - 1

(***************************************************************************)
(* The protocol as the examples run it: build the R1CS, convert it,        *)
(* Setup, Prove, Verify.                                                   *)
(***************************************************************************)

\* Setup is called with num_public_inputs in 0..MaxPublic
MaxPublic == 1

RECURSIVE SetRows(_, _, _)
\* createCubicR1CS / simple_example.cpp: setConstraint(n - 1, ...) for each
\* of the first n rows
SetRows(r, rows, n) ==
    IF n = 0 THEN r
    ELSE setConstraint(SetRows(r, rows, n - 1), n - 1,
                       rows[n][1], rows[n][2], rows[n][3])

\* the example system of nv variables
ExampleSystem(nv) ==
    SetRows(R1CS(nv, Len(ExampleRows(nv))), ExampleRows(nv), Len(ExampleRows(nv)))

\* the examples' witness for x = 3, with out as computed and out off by one:
\* [1, x, out] and [1, x, out, sym1, sym2]
ProverWitnesses(nv) ==
    IF nv = 3 THEN { << 1, 3, 9 + d >> : d \in {0, 1} }
    ELSE { << 1, 3, 35 + d, 9, 27 >> : d \in {0, 1} }

\* the examples' witness for x = 3 with out as computed
ComputedWitness(nv) ==
    IF nv = 3 THEN << 1, 3, 9 >> ELSE << 1, 3, 35, 9, 27 >>

\* the witnesses handed to prove: the examples', and the computed one with
\* its last entry missing and with one entry more
WitnessesOfAnyLength(nv) ==
    ProverWitnesses(nv)
      \cup { SubSeq(ComputedWitness(nv), 1, nv - 1),
             Append(ComputedWitness(nv), FieldElement(0)) }

\* the values randomScalar() returns to setup, each in [1, SMALL_PRIME - 1]:
\* ones, values around the order 27888707 of the generator, large values
SetupScalarChoices ==
    { [tau |-> 1, alpha |-> 1, beta |-> 1, gamma |-> 1, delta |-> 1],
      [tau |-> 5, alpha |-> 27888707, beta |-> 3, gamma |-> 4, delta |-> 5],
      [tau |-> 123456789, alpha |-> 77, beta |-> SMALL_PRIME - 1,
       gamma |-> 2, delta |-> 3] }

\* the values randomScalar() returns to prove for << r, s >>
BlindingChoices ==
    { << 1, 1 >>, << 27888704, 1 >>, << 362191, SMALL_PRIME - 1 >> }

InitProtocol ==
    /\ curve = DefaultCurve
    /\ r1cs \in { ExampleSystem(3), ExampleSystem(5) }
    /\ qap = NoQAP
    /\ pk = EmptyProvingKey
    /\ vk = EmptyVerificationKey
    /\ proof = EmptyProof
    /\ caller_witness = << >>
    /\ caller_inputs = << >>
    /\ phase = "building"
    /\ call = NoCall

\* zkSNARK::setup(qap, r1cs, pk, vk, num_public_inputs) with the scalars that
\* randomScalar() returned; setup prints them.  curve_writes counts the
\* call's ECPoint::setCurveParams calls.  pk and vk are the caller's
\* objects: empty before the first call, filled by it before a second one.
Setup(scalars, num_public_inputs) ==
    /\ phase \in {"converted", "keyed"}
    /\ call = NoCall
    /\ LET res == setup(qap, pk, vk, scalars, num_public_inputs)
       IN  /\ pk' = res.pk
           /\ vk' = res.vk
           /\ call' = [op |-> "zkSNARK::setup",
                       num_public_inputs |-> num_public_inputs,
                       printed |-> scalars,
                       curve_writes |-> 1,
                       ret |-> IF res.thrown THEN DivisionError ELSE Void]
           /\ phase' = IF res.thrown THEN phase
                       ELSE IF phase = "converted" THEN "keyed" ELSE "rekeyed"
    /\ curve' = ProtocolCurve
    /\ UNCHANGED << r1cs, qap, proof, caller_witness, caller_inputs >>

\* proof = zkSNARK::prove(qap, pk, w, inputs) with the blinding factors r, s
\* that randomScalar() returned.  computePolynomials reads witness[i] up to
\* num_variables and its results are only printed: on a shorter witness the
\* reads past its end yield some value and the proof is what the sums give,
\* or the process dies.
Prove(w, inputs, r, s) ==
    /\ phase = "keyed"
    /\ call = NoCall
    /\ \E this \in { [op |-> "zkSNARK::prove", r |-> r, s |-> s,
                       curve_writes |-> 1,
                       accesses |-> ProveAccesses(qap, pk, w)] } :
         \/ \E res \in { prove(qap, pk, w, inputs, r, s) } :
              /\ proof' = IF IsError(res) THEN proof ELSE res
              /\ call' = this @@ [ret |-> IF IsError(res) THEN res ELSE Void]
              /\ phase' = IF IsError(res) THEN phase ELSE "proved"
         \/ /\ Len(w) < qap.num_variables
            /\ call' = this @@ [ret |-> Crashed]
            /\ phase' = "crashed"
            /\ UNCHANGED proof
    /\ caller_witness' = w
    /\ caller_inputs' = inputs
    /\ curve' = ProtocolCurve
    /\ UNCHANGED << r1cs, qap, pk, vk >>

\* zkSNARK::verify(vk, proof, caller_inputs)
VerifyProof ==
    /\ phase = "proved"
    /\ call = NoCall
    /\ call' = [op |-> "zkSNARK::verify",
                curve_writes |-> 0,
                ret |-> verify(vk, proof, caller_inputs, curve.a)]
    /\ phase' = "verified"
    /\ UNCHANGED << curve, r1cs, qap, pk, vk, proof, caller_witness, caller_inputs >>

\* the caller sets the last constraint again, and one past the last; runs
\* setup, and may run it once more on the keys it has; proves with the
\* public values of its witness
NextProtocol ==
    \/ /\ phase = "building" /\ call = NoCall
       /\ \E idx \in {r1cs.num_constraints - 1, r1cs.num_constraints},
             t \in { ExampleRows(r1cs.num_variables)[r1cs.num_constraints] } :
            SetConstraint(idx, t[1], t[2], t[3])
    \/ FromR1CS
    \/ /\ phase \in {"converted", "keyed"} /\ call = NoCall
       /\ \E scalars \in SetupScalarChoices, num_public_inputs \in 0..MaxPublic :
            Setup(scalars, num_public_inputs)
    \/ /\ phase = "keyed" /\ call = NoCall
       /\ \E w \in WitnessesOfAnyLength(r1cs.num_variables), b \in BlindingChoices :
            Prove(w, SubSeq(w, 3, Min(Len(w), Len(vk.IC) + 1)), b[1], b[2])
    \/ VerifyProof
    \/ Return

SpecProtocol == InitProtocol /\ [][NextProtocol]_vars

\* C1: for every R1CS, every witness that satisfies it, every public-input
\* vector and every choice of the setup and blinding scalars in [1, P-1],
\* after qap = fromR1CS(r1cs), Setup(qap, r1cs, |pub|) and
\* proof = Prove(qap, pk, witness, pub), the call Verify(vk, proof, pub)
\* completes and returns true.
C1_Completeness ==
    ( /\ call.op = "zkSNARK::verify"
      /\ SatisfiedBy(r1cs, caller_witness) )
    => /\ ~IsError(call.ret)
       /\ call.ret.ret = TRUE

\* C2: for every R1CS and every witness of length num_variables that does
\* not satisfy it, the proof returned by Prove with keys from Setup is
\* rejected: Verify(vk, proof, pub) returns false.
C2_Soundness ==
    ( /\ call.op = "zkSNARK::verify"
      /\ Len(caller_witness) = r1cs.num_variables
      /\ ~SatisfiedBy(r1cs, caller_witness) )
    => /\ ~IsError(call.ret)
       /\ call.ret.ret = FALSE

(***************************************************************************)
(* Further properties of the polynomial operations (SpecPoly)              *)
(***************************************************************************)

\* C11: for every index j and every sequence xs in which any two entries
\* coincide, whether or not one of them is xs[j], basisPolynomial(j, xs)
\* fails with a DivisionError instead of returning a polynomial.
C11_RepeatedPointsRejected ==
    ( /\ call.op = "basisPolynomial"
      /\ ~PairwiseDistinct(call.x_values) )
    => call.ret = DivisionError

(***************************************************************************)
(* field.h as a state machine: a caller constructs field elements and      *)
(* applies the arithmetic operators to them.                               *)
(***************************************************************************)

\* operands are sampled as 0..MaxOperand, P-1-MaxOperand..P-1 and values
\* around 2^15.5, 2^16 and 2^30
MaxOperand == 3

FieldOperands ==
    (0..MaxOperand)
      \cup { SMALL_PRIME - 1 - k : k \in 0..MaxOperand }
      \cup { 46341, 65536, 1073741824 }

\* A uint64_t constructor argument is the triple <<top, hi, lo>> =
\* top * 2^62 + hi * 2^31 + lo with top < 4 and hi, lo < 2^31.
U64Samples ==
    { << top, hi, lo >> : top \in {0, 3},
                          hi \in {0, SMALL_PRIME},
                          lo \in {0, 1, SMALL_PRIME - 1, SMALL_PRIME} }

\* FieldElement(uint64_t val) : value(val % SMALL_PRIME) for a 64-bit val;
\* 2^31 and 2^62 are congruent to 1 modulo SMALL_PRIME
FieldElementU64(w) ==
    FAdd(FAdd(FieldElement(w[1]), FieldElement(w[2])), FieldElement(w[3]))

\* a FieldElement object holding value v
FieldValue(v) == [value |-> v]

\* what a call of inverse() or operator/ hands back: the element or the
\* error thrown
Outcome(res) == IF res.ok THEN FieldValue(res.v) ELSE DivisionError

InitField ==
    /\ curve = DefaultCurve
    /\ r1cs = R1CS(0, 0)
    /\ qap = NoQAP
    /\ pk = EmptyProvingKey
    /\ vk = EmptyVerificationKey
    /\ proof = EmptyProof
    /\ caller_witness = << >>
    /\ caller_inputs = << >>
    /\ phase = "field"
    /\ call = NoCall

\* FieldElement() : value(0)
DefaultConstruct ==
    /\ call = NoCall
    /\ call' = [op |-> "FieldElement()", ret |-> FieldValue(0)]
    /\ UNCHANGED << curve, r1cs, qap, pk, vk, proof, caller_witness, caller_inputs, phase >>

\* FieldElement(val)
Construct(val) ==
    /\ call = NoCall
    /\ call' = [op |-> "FieldElement(val)", val |-> val,
                ret |-> FieldValue(FieldElementU64(val))]
    /\ UNCHANGED << curve, r1cs, qap, pk, vk, proof, caller_witness, caller_inputs, phase >>

\* a op b for op in +, -, *, /
Arithmetic(op, a, b) ==
    /\ call = NoCall
    /\ call' = [op |-> op, a |-> a, b |-> b,
                ret |-> CASE op = "operator+" -> FieldValue(FAdd(a, b))
                          [] op = "operator-" -> FieldValue(FSub(a, b))
                          [] op = "operator*" -> FieldValue(FMul(a, b))
                          [] op = "operator/" -> Outcome(FDiv(a, b))]
    /\ UNCHANGED << curve, r1cs, qap, pk, vk, proof, caller_witness, caller_inputs, phase >>

\* a.inverse()
Inverse(a) ==
    /\ call = NoCall
    /\ call' = [op |-> "inverse", a |-> a, ret |-> Outcome(FInverse(a))]
    /\ UNCHANGED << curve, r1cs, qap, pk, vk, proof, caller_witness, caller_inputs, phase >>

\* a.power(exp)
Power(a, exp) ==
    /\ call = NoCall
    /\ call' = [op |-> "power", a |-> a, exp |-> exp,
                ret |-> FieldValue(FPower(a, exp))]
    /\ UNCHANGED << curve, r1cs, qap, pk, vk, proof, caller_witness, caller_inputs, phase >>

NextField ==
    \/ DefaultConstruct
    \/ /\ call = NoCall
       /\ \E val \in U64Samples : Construct(val)
    \/ /\ call = NoCall
       /\ \E op \in { "operator+", "operator-", "operator*", "operator/" },
             a \in FieldOperands, b \in FieldOperands : Arithmetic(op, a, b)
    \/ /\ call = NoCall
       /\ \E a \in FieldOperands : Inverse(a)
    \/ /\ call = NoCall
       /\ \E a \in FieldOperands, exp \in FieldOperands : Power(a, exp)
    \/ Return

SpecField == InitField /\ [][NextField]_vars

\* (x + y) mod P for x, y in [0, P), formed from the difference to P
AddRef(x, y) == IF x - SMALL_PRIME + y >= 0 THEN x - SMALL_PRIME + y ELSE x + y

\* (x - y) mod P for x, y in [0, P)
SubRef(x, y) == IF x - y >= 0 THEN x - y ELSE x - y + SMALL_PRIME

RECURSIVE MulRef(_, _)
\* (x * y) mod P for x, y in [0, P), by doubling: x * y = 2 * (x * (y div 2))
\* plus x when y is odd
MulRef(x, y) ==
    IF y = 0 THEN 0
    ELSE Value({ IF y % 2 = 1 THEN AddRef(AddRef(h, h), x) ELSE AddRef(h, h) :
                 h \in { MulRef(x, y \div 2) } })

\* C12: for every field element a with 0 < a < P, a.inverse() returns b in
\* [0, P) with a * b = 1; a.inverse() on the zero element fails with a
\* DivisionError, and a / b fails with the same error exactly when b is zero.
C12_FieldInverse ==
    /\ call.op = "inverse"
         => IF call.a = 0 THEN call.ret = DivisionError
            ELSE /\ ~IsError(call.ret)
                 /\ call.ret.value \in 0..(SMALL_PRIME - 1)
                 /\ MulRef(call.a, call.ret.value) = 1
                 /\ FMul(call.a, call.ret.value) = 1
    /\ call.op = "operator/"
         => /\ IsError(call.ret) <=> (call.b = 0)
            /\ IsError(call.ret) => call.ret = DivisionError
            /\ ~IsError(call.ret) => MulRef(call.ret.value, call.b) = call.a

\* the inverse of the largest field element is that element, and the inverse
\* of zero is refused
C12_Witness ==
    /\ call.op = "inverse"
    /\ call.a = SMALL_PRIME - 1
    /\ call.ret = FieldValue(SMALL_PRIME - 1)
    /\ Outcome(FInverse(0)) = DivisionError

\* C13: for all a, b in [0, P), a + b, a - b and a * b return (a + b) mod P,
\* (a - b) mod P and (a * b) mod P, no intermediate value wrapping around;
\* consequently a + 0 = a, a * 1 = a and a - a = 0.
C13_FieldArithmetic ==
    /\ call.op = "operator+"
         => /\ call.ret.value = AddRef(call.a, call.b)
            /\ call.b = 0 => call.ret.value = call.a
    /\ call.op = "operator-"
         => /\ call.ret.value = SubRef(call.a, call.b)
            /\ call.b = call.a => call.ret.value = 0
    /\ call.op = "operator*"
         => /\ call.ret.value = MulRef(call.a, call.b)
            /\ call.b = 1 => call.ret.value = call.a

\* the square of the largest field element, whose 62-bit product needs the
\* wide intermediate, is 1
C13_Witness ==
    /\ call.op = "operator*"
    /\ call.a = SMALL_PRIME - 1
    /\ call.b = SMALL_PRIME - 1
    /\ call.ret = FieldValue(1)

\* C14: every FieldElement value that can exist (default-constructed,
\* constructed from any 64-bit unsigned integer, or returned by +, -, *, /,
\* inverse or power) stores v with 0 <= v < P.
C14_FieldRange ==
    ( /\ phase = "field"
      /\ call # NoCall
      /\ ~IsError(call.ret) )
    => call.ret.value \in 0..(SMALL_PRIME - 1)

\* the element constructed from the largest uint64_t, 2^64 - 1, holds 3
C14_Witness ==
    /\ call.op = "FieldElement(val)"
    /\ call.val = << 3, SMALL_PRIME, SMALL_PRIME >>
    /\ call.ret = FieldValue(3)


(***************************************************************************)
(* The verification predicate                                              *)
(***************************************************************************)

\* C15: whenever verify(vk, proof, public_inputs) returns, its result is true
\* if and only if none of proof.A, proof.B, proof.C is the point at infinity.
C15_VerifyPredicate ==
    ( /\ call.op = "zkSNARK::verify"
      /\ ~IsError(call.ret) )
    => ( call.ret.ret = TRUE
         <=> ( /\ ~proof.A.is_infinity
               /\ ~proof.B.is_infinity
               /\ ~proof.C.is_infinity ) )

\* verify has returned false for a proof with one component at infinity and
\* the other two finite
C15_Witness ==
    /\ call.op = "zkSNARK::verify"
    /\ ~IsError(call.ret)
    /\ call.ret.ret = FALSE
    /\ Cardinality({ c \in {"A", "B", "C"} : proof[c].is_infinity }) = 1


(***************************************************************************)
(* The keys that setup leaves                                              *)
(***************************************************************************)

\* entry i of query is Generator * (polys[i] evaluated at tau)
EncodesAt(query, polys, tau) ==
    \A i \in 1..Len(polys) :
        query[i] = ECMul(Generator,
                         PolyEvaluate(polys[i], FieldElement(tau)),
                         ProtocolCurve.a)

\* C16: after every call setup(qap, r1cs, pk, vk, num_public_inputs) with
\* num_public_inputs >= 0, a call on keys filled by an earlier setup
\* included, pk.A_query, pk.B_query and pk.C_query each have exactly
\* qap.num_variables entries, entry i being Generator * (A_polys[i] /
\* B_polys[i] / C_polys[i] evaluated at this call's tau), and vk.IC has
\* exactly num_public_inputs + 1 entries.
C16_KeyShape ==
    ( /\ call.op = "zkSNARK::setup"
      /\ ~IsError(call.ret) )
    => /\ Len(pk.A_query) = qap.num_variables
       /\ Len(pk.B_query) = qap.num_variables
       /\ Len(pk.C_query) = qap.num_variables
       /\ EncodesAt(pk.A_query, qap.A_polys, call.printed.tau)
       /\ EncodesAt(pk.B_query, qap.B_polys, call.printed.tau)
       /\ EncodesAt(pk.C_query, qap.C_polys, call.printed.tau)
       /\ Len(vk.IC) = call.num_public_inputs + 1


(***************************************************************************)
(* Failing calls                                                           *)
(***************************************************************************)

\* C17: whenever a public entry point (setConstraint, fromR1CS, setup, prove,
\* verify) fails with an error, the R1CS matrices and the proving-key and
\* verification-key objects are exactly as they were before the call; a setup
\* that fails inside a curve operation leaves pk and vk with no added entry.
C17_AtomicFailure ==
    [][ ( /\ call = NoCall
          /\ call' # NoCall
          /\ IsError(call'.ret) )
        => /\ r1cs' = r1cs
           /\ pk' = pk
           /\ vk' = vk ]_vars

\* setConstraint has failed with the RangeError
C17_Witness ==
    /\ call.op = "setConstraint"
    /\ call.idx = r1cs.num_constraints
    /\ call.ret = RangeError


(***************************************************************************)
(* What setup shows                                                        *)
(***************************************************************************)

\* the names of the five setup scalars
ToxicWaste == {"tau", "alpha", "beta", "gamma", "delta"}

\* C18: after setup returns, none of the five setup scalars tau, alpha, beta,
\* gamma, delta appears as a raw scalar in what the caller or an observer can
\* read: the proving key, the verification key, the output setup emitted.
C18_ToxicWasteHidden ==
    call.op = "zkSNARK::setup"
    => \A name \in ToxicWaste : name \notin DOMAIN call.printed


(***************************************************************************)
(* The index test of setConstraint                                         *)
(***************************************************************************)

\* C19: setConstraint(index, a, b, c) succeeds only for
\* 0 <= index < num_constraints; for every other index, at or above
\* num_constraints or negative, it fails with the RangeError and leaves A, B
\* and C unchanged.
C19_BoundsCheck ==
    [][ ( /\ call = NoCall
          /\ call'.op = "setConstraint"
          /\ \/ call'.idx < 0
             \/ call'.idx >= r1cs.num_constraints )
        => /\ call'.ret = RangeError
           /\ r1cs' = r1cs ]_vars


(***************************************************************************)
(* Products of polynomials                                                 *)
(***************************************************************************)

RECURSIVE ConvolutionSum(_, _, _, _)
\* the sum of f[i] * g[k - i] mod P over the i in 0..last for which g has an
\* entry k - i (0-indexed)
ConvolutionSum(f, g, k, last) ==
    IF last < 0 THEN 0
    ELSE Value({ IF k - last >= 0 /\ k - last < Len(g)
                 THEN AddRef(rest, MulRef(f[last + 1], g[k - last + 1]))
                 ELSE rest :
                 rest \in { ConvolutionSum(f, g, k, last - 1) } })

\* product has Len(f) + Len(g) - 1 coefficients, coefficient k being the sum
\* of f[i] * g[j] over i + j = k
FullConvolution(product, f, g) ==
    /\ Len(product.coefficients) = Len(f) + Len(g) - 1
    /\ \A k \in 0..(Len(f) + Len(g) - 2) :
         product.coefficients[k + 1] = ConvolutionSum(f, g, k, Len(f) - 1)

\* product.evaluate(x) = f.evaluate(x) * g.evaluate(x) at the sampled x
ProductOfValues(product, f, g) ==
    \A xv \in FieldSamples \cup { FieldElement(2), FieldElement(46341) } :
        PolyEvaluate(product, xv)
          = MulRef(PolyEvaluate(Polynomial(f), xv), PolyEvaluate(Polynomial(g), xv))

\* C20: for all coefficient sequences f and g, the empty sequence included,
\* f * g has exactly len(f) + len(g) - 1 coefficients, coefficient k is the
\* sum of f[i] * g[j] over i + j = k, and (f * g).evaluate(x) =
\* f.evaluate(x) * g.evaluate(x) for every field element x.
C20_FullConvolution ==
    call.op = "operator*"
    => /\ FullConvolution(call.ret, call.f, call.g)
       /\ ProductOfValues(call.ret, call.f, call.g)

\* C20, with the empty sequences set apart: for non-empty f and g, f * g has
\* exactly len(f) + len(g) - 1 coefficients and coefficient k is the sum of
\* f[i] * g[j] over i + j = k; when f or g is empty, f * g has no
\* coefficients; in both cases (f * g).evaluate(x) = f.evaluate(x) *
\* g.evaluate(x) for every field element x.
C20_ConvolutionOfNonEmpty ==
    call.op = "operator*"
    => /\ IF Len(call.f) = 0 \/ Len(call.g) = 0
          THEN Len(call.ret.coefficients) = 0
          ELSE FullConvolution(call.ret, call.f, call.g)
       /\ ProductOfValues(call.ret, call.f, call.g)

\* (-1 - x) * (-1 - x) = 1 + 2x + x^2
C20_Witness ==
    /\ call.op = "operator*"
    /\ call.f = << SMALL_PRIME - 1, SMALL_PRIME - 1 >>
    /\ call.g = << SMALL_PRIME - 1, SMALL_PRIME - 1 >>
    /\ call.ret = Polynomial(<< 1, 2, 1 >>)


(***************************************************************************)
(* The length test of interpolate                                          *)
(***************************************************************************)

\* C21: interpolate(xs, ys) fails with the LengthMismatchError whenever
\* len(xs) # len(ys), before any basis polynomial is built: the length error
\* takes precedence over a DivisionError from repeated points.
C21_LengthMismatch ==
    ( /\ call.op = "interpolate"
      /\ Len(call.x_values) # Len(call.y_values) )
    => call.ret = LengthMismatchError

\* interpolate has failed on vectors of different lengths whose x values
\* repeat
C21_Witness ==
    /\ call.op = "interpolate"
    /\ call.x_values = << FieldElement(1), FieldElement(1) >>
    /\ call.y_values = << FieldElement(0) >>
    /\ IsError(basisPolynomial(0, call.x_values))
    /\ call.ret = LengthMismatchError


(***************************************************************************)
(* The point at infinity as an operand of operator+                        *)
(***************************************************************************)

\* C22: for every point P, infinity or not, P + Identity = P and
\* Identity + P = P, with no field division performed and no error raised.
C22_IdentityAbsorption ==
    /\ ( call.op = "operator+" /\ call.other.is_infinity )
       => /\ ~IsError(call.ret)
          /\ ECEquals(call.ret, call.p)
          /\ call.divisions = 0
    /\ ( call.op = "operator+" /\ call.p.is_infinity )
       => /\ ~IsError(call.ret)
          /\ ECEquals(call.ret, call.other)
          /\ call.divisions = 0

\* a finite point plus the point at infinity has returned the finite point
C22_Witness ==
    /\ call.op = "operator+"
    /\ call.p = Generator
    /\ call.other = Infinity
    /\ call.ret = Generator


(***************************************************************************)
(* The rows setConstraint leaves alone                                     *)
(***************************************************************************)

\* rows i (0-indexed) of A, B and C are the same in r and in s
SameRow(r, s, i) ==
    /\ r.A[i + 1] = s.A[i + 1]
    /\ r.B[i + 1] = s.B[i + 1]
    /\ r.C[i + 1] = s.C[i + 1]

\* C23: a successful setConstraint(i, a, b, c), 0 <= i < num_constraints,
\* changes only row i of A, B and C: all other rows, num_variables and
\* num_constraints are unchanged; so the call commutes with a call on any
\* other index, and a later call on the same index overwrites it.
C23_RowsInAnyOrder ==
    [][ ( /\ call = NoCall
          /\ call'.op = "setConstraint"
          /\ call'.idx >= 0
          /\ call'.ret = Void )
        => /\ r1cs'.num_variables = r1cs.num_variables
           /\ r1cs'.num_constraints = r1cs.num_constraints
           /\ Len(r1cs'.A) = Len(r1cs.A)
           /\ Len(r1cs'.B) = Len(r1cs.B)
           /\ Len(r1cs'.C) = Len(r1cs.C)
           /\ r1cs'.A[call'.idx + 1] = call'.a
           /\ r1cs'.B[call'.idx + 1] = call'.b
           /\ r1cs'.C[call'.idx + 1] = call'.c
           /\ \A j \in 0..(r1cs.num_constraints - 1) :
                /\ j # call'.idx => SameRow(r1cs', r1cs, j)
                /\ \A u \in ConstraintChoices(r1cs.num_variables) :
                     setConstraint(r1cs', j, u[1], u[2], u[3])
                       = IF j = call'.idx
                         THEN setConstraint(r1cs, j, u[1], u[2], u[3])
                         ELSE setConstraint(
                                  setConstraint(r1cs, j, u[1], u[2], u[3]),
                                  call'.idx, call'.a, call'.b, call'.c) ]_vars

\* row 2 of the cubic system has been set after row 0 and before row 1
C23_Witness ==
    /\ call.op = "setConstraint"
    /\ call.idx = 2
    /\ call.ret = Void
    /\ r1cs.num_constraints = 3
    /\ r1cs.A[1] = CubicRows[1][1]
    /\ r1cs.A[2] = ZeroRow(5)
    /\ r1cs.A[3] = CubicRows[3][1]


(***************************************************************************)
(* The slope divisions of operator+                                        *)
(***************************************************************************)

\* p is the point at infinity or satisfies the curve equation
IsCurvePoint(p, c) == p.is_infinity \/ OnCurve(p, c)

\* C24: for every pair of points P, Q on the curve, whenever P + Q reaches a
\* slope division the denominator is a non-zero field element, every
\* zero-denominator case being intercepted by an earlier guard; so operator+
\* never raises a DivisionError.
C24_NoDivisionByZero ==
    ( /\ call.op = "operator+"
      /\ IsCurvePoint(call.p, curve)
      /\ IsCurvePoint(call.other, curve) )
    => call.ret # DivisionError


(***************************************************************************)
(* The points of the protocol and the curve equation                       *)
(***************************************************************************)

\* the points the keys and the proof hold
ProtocolPoints ==
    { pk.alpha, pk.beta, pk.delta, vk.alpha, vk.beta, vk.gamma, vk.delta,
      proof.A, proof.B, proof.C }
      \cup { pk.A_query[i] : i \in 1..Len(pk.A_query) }
      \cup { pk.B_query[i] : i \in 1..Len(pk.B_query) }
      \cup { pk.C_query[i] : i \in 1..Len(pk.C_query) }
      \cup { vk.IC[i] : i \in 1..Len(vk.IC) }

\* C25: every non-infinity point constructed during setup, prove and verify,
\* the generator (2, 1234567) under a = 0, b = 7 and every point derived from
\* it by addition, doubling or scalar multiplication, satisfies
\* y^2 = x^3 + a*x + b, so the constructor's warning is never emitted.
C25_CurveMembership ==
    /\ phase \in {"keyed", "rekeyed", "proved", "verified"}
         => IsCurvePoint(Generator, ProtocolCurve)
    /\ \A pt \in ProtocolPoints : IsCurvePoint(pt, ProtocolCurve)


(***************************************************************************)
(* The proof that prove returns                                            *)
(***************************************************************************)

RECURSIVE WeightedSum(_, _, _, _)
\* witness[0] * query[0] + ... + witness[n - 1] * query[n - 1], summed from
\* the point at infinity in index order
WeightedSum(query, witness, n, a) ==
    IF n = 0 THEN Infinity
    ELSE Value({ ECAdd(rest, ECMul(query[n], witness[n], a), a) :
                 rest \in { WeightedSum(query, witness, n - 1, a) } })

\* C26: for a witness of length num_variables and blinding scalars r, s,
\* prove returns exactly A = sum_i witness[i] * pk.A_query[i] + r * pk.alpha,
\* B = sum_i witness[i] * pk.B_query[i] + s * pk.beta and
\* C = sum_i witness[i] * pk.C_query[i] + (r*s) * pk.delta, the product r*s
\* being the full product for all r, s in [1, P-1]; the result does not
\* depend on the public_inputs argument.
C26_ProofFormula ==
    ( /\ call.op = "zkSNARK::prove"
      /\ ~IsError(call.ret)
      /\ Len(caller_witness) = qap.num_variables )
    => /\ proof.A = ECAdd(WeightedSum(pk.A_query, caller_witness,
                                      qap.num_variables, ProtocolCurve.a),
                          ECMul(pk.alpha, call.r, ProtocolCurve.a),
                          ProtocolCurve.a)
       /\ proof.B = ECAdd(WeightedSum(pk.B_query, caller_witness,
                                      qap.num_variables, ProtocolCurve.a),
                          ECMul(pk.beta, call.s, ProtocolCurve.a),
                          ProtocolCurve.a)
       /\ proof.C = ECAdd(WeightedSum(pk.C_query, caller_witness,
                                      qap.num_variables, ProtocolCurve.a),
                          ECMul(ECMul(pk.delta, call.r, ProtocolCurve.a),
                                call.s, ProtocolCurve.a),
                          ProtocolCurve.a)
       /\ \A inputs \in { << >>, Append(caller_inputs, FieldElement(1)) } :
            prove(qap, pk, caller_witness, inputs, call.r, call.s) = proof

\* prove has returned for blinding scalars whose product needs more than 32
\* bits
C26_Witness ==
    /\ call.op = "zkSNARK::prove"
    /\ ~IsError(call.ret)
    /\ call.r = 362191
    /\ call.s = SMALL_PRIME - 1
    /\ WideMul(call.r, call.s)[1] > 0
    /\ Len(caller_witness) = qap.num_variables
    /\ ~proof.C.is_infinity


(***************************************************************************)
(* The order in which verify reports the rows                              *)
(***************************************************************************)

\* rows 0 .. last reported in index order, each [OK] but the last, which is
\* marked with mark
ReportedUpTo(last, mark) ==
    [i \in 1..(last + 1) |-> << i - 1, IF i = last + 1 THEN mark ELSE "OK" >>]

\* the rows of r that w does not satisfy
Unsatisfied(r, w) ==
    { i \in 0..(r.num_constraints - 1) : ~Satisfied(r, w, i) }

\* C27: on a witness of the right length that is not satisfying, verify
\* evaluates and reports rows 0, 1, ..., f in that order, f being the
\* smallest index of an unsatisfied row, reports the failure at row f, and
\* evaluates no row after f; on a satisfying witness it evaluates every row
\* exactly once in index order.
C27_ShortCircuitOrder ==
    ( /\ call.op = "verify"
      /\ Len(call.witness) = r1cs.num_variables )
    => /\ call.ret # Crashed
       /\ \A f \in Unsatisfied(r1cs, call.witness) :
            (\A i \in Unsatisfied(r1cs, call.witness) : f <= i)
            => /\ call.ret.ret = FALSE
               /\ call.ret.reported = ReportedUpTo(f, "FAIL")
       /\ Unsatisfied(r1cs, call.witness) = {}
            => /\ call.ret.ret = TRUE
               /\ call.ret.reported = ReportedUpTo(r1cs.num_constraints - 1, "OK")


(***************************************************************************)
(* Writes of the curve parameters                                          *)
(***************************************************************************)

\* C28: across any sequence of setup, prove and verify calls, the
\* process-wide curve parameters (a, b) are set before the first point is
\* constructed and are never written again once a point exists, so every
\* point operation in the sequence uses the same (a, b).
C28_CurveWrittenOnce ==
    [][ ( /\ call = NoCall
          /\ call'.op \in {"zkSNARK::setup", "zkSNARK::prove", "zkSNARK::verify"}
          /\ \E pt \in ProtocolPoints : ~pt.is_infinity )
        => /\ call'.curve_writes = 0
           /\ curve' = curve ]_vars


(***************************************************************************)
(* verify and the statement                                                *)
(***************************************************************************)

\* verification keys handed to verify: the caller's, an empty one, one with
\* another IC, and one whose IC holds a point that cannot be doubled
KeyChoices ==
    { vk, EmptyVerificationKey,
      [vk EXCEPT !.IC = << Generator, Generator, Generator >>],
      [vk EXCEPT !.IC = << Generator, ECPoint(FieldElement(1), FieldElement(0)) >>] }

\* public-input vectors handed to verify: the caller's, none, others of
\* lengths 1 to 3
InputChoices ==
    { caller_inputs, << >>, << FieldElement(0) >>,
      << FieldElement(2), SMALL_PRIME - 1 >>,
      << FieldElement(1), FieldElement(2), FieldElement(3) >> }

\* what verify returns for the proof under each key and input vector, the
\* calls that throw left out
Verdicts ==
    { res \in { verify(vkey, proof, inputs, curve.a) :
                vkey \in KeyChoices, inputs \in InputChoices } : ~IsError(res) }

\* C29: for a fixed proof, any two calls verify(vk1, proof, pub1) and
\* verify(vk2, proof, pub2) that both return give the same boolean, for all
\* verification keys and all public-input vectors of any length; the
\* accumulator vk_x folded from the public inputs never influences the
\* result.
C29_VerifyIgnoresStatement ==
    \A res1 \in Verdicts, res2 \in Verdicts : res1.ret = res2.ret

\* an accepted proof, accepted under keys and inputs that fold to different
\* accumulators, one call among the choices throwing
C29_Witness ==
    /\ call.op = "zkSNARK::verify"
    /\ ~IsError(call.ret)
    /\ call.ret.ret = TRUE
    /\ \E res \in Verdicts : res.vk_x # call.ret.vk_x /\ res.ret = TRUE
    /\ \E vkey \in KeyChoices, inputs \in InputChoices :
         IsError(verify(vkey, proof, inputs, curve.a))


(***************************************************************************)
(* The element accesses of prove                                           *)
(***************************************************************************)

\* C30: for every witness whose length is smaller than, equal to, or larger
\* than qap.num_variables, every element access made during prove, those of
\* its call to computePolynomials (witness[i], A_polys[i], B_polys[i],
\* C_polys[i] for i < num_variables) and those to pk.A_query, pk.B_query,
\* pk.C_query included, uses an index that is valid for the sequence read.
C30_ProveWithinBounds ==
    call.op = "zkSNARK::prove"
    => \A access \in call.accesses : 0 <= access[2] /\ access[2] < access[3]

=============================================================================
